---- MODULE Spec2Model ----
(***************************************************************************)
(* Model of the numeric core of calculadora-aporte (lib/finance.ts):       *)
(* parseNumberBR, clamp, annualToMonthlyRate, realMonthlyRateFromGross,    *)
(* simulateProjection, finalBalanceReal, monthsToTarget, solveRequiredPmt, *)
(* and of the preset panel of App.tsx (savePreset, deletePreset).          *)
(*                                                                         *)
(* Numbers.  A JavaScript number is modelled as a pair <<n, d>>:           *)
(*   d > 0  : the finite value n/d, in lowest terms;                       *)
(*   <<1,0>>, <<-1,0>> : +Infinity and -Infinity;   <<0,0>> : NaN.         *)
(* Arithmetic on finite values is exact; the IEEE-754 rules for division   *)
(* by zero, for the infinities and for NaN (propagation, comparisons that  *)
(* are false) are kept, because the code's Number.isFinite guards depend   *)
(* on them.  The finite precision of a double is modelled where it decides *)
(* an outcome: the bisection midpoint is rounded to a grid of 2^-FracBits  *)
(* (ties to even), so that, as in the code, the bracket stops moving once  *)
(* low and high are neighbouring representable values; the sum             *)
(* 1 + annualRate is rounded to FracBits + 1 significant bits (Fl); and    *)
(* the result of each operation of a balance update that is too long for   *)
(* the model's integers is rounded (Store).                                *)
(***************************************************************************)
EXTENDS Integers, Sequences, FiniteSets, TLC

VARIABLES
    op,           \* the exported function that was called
    params,       \* its argument record
    pc,           \* position inside the function
    m,            \* loop variable m of simulateProjection / monthsToTarget
    balanceReal,  \* local balanceReal
    points,       \* local points of simulateProjection
    low,          \* solveRequiredPmt: low
    high,         \* solveRequiredPmt: high
    guard,        \* solveRequiredPmt: guard
    i,            \* solveRequiredPmt: bisection counter i
    result,       \* the returned value, once pc = "done"
    updates,      \* history: balance updates executed by the running loop
    nsim,         \* history: simulateProjection runs made by solveRequiredPmt
    presets,      \* App: state presets, the list of saved presets
    presetName,   \* App: state presetName, the text of the name field
    presetPayload,\* App: presetPayload, the current parameters of the form
    stored        \* localStorage item calcAporte.presets.v1

vars == <<op, params, pc, m, balanceReal, points, low, high, guard, i,
          result, updates, nsim, presets, presetName, presetPayload, stored>>

presetVars == <<presets, presetName, presetPayload, stored>>

\* the state of the preset panel while a function of lib/finance runs
NoPresets ==
    /\ presets = <<>>
    /\ presetName = <<>>
    /\ presetPayload = 0
    /\ stored = <<>>

----------------------------------------------------------------------------
(* Bounds of the explored inputs *)

MaxHorizon == 3
MaxAmount == 2
MaxMonthsArg == 3
HorizonLog == 1
FracBits == 3

(* Program constants *)

DefaultMaxMonths == 2400
DoublingCap == 60
HighCeiling == 1000000000
BisectionSteps == 70

----------------------------------------------------------------------------
(* Number model *)

NaN == <<0, 0>>
PosInf == <<1, 0>>
NegInf == <<-1, 0>>

Abs(x) == IF x < 0 THEN -x ELSE x
Sign(x) == IF x < 0 THEN -1 ELSE IF x > 0 THEN 1 ELSE 0

RECURSIVE Gcd(_, _)
Gcd(a, b) == IF b = 0 THEN a ELSE Gcd(b, a % b)

\* the finite number n/d (d # 0) in lowest terms with a positive denominator
Q(n, d) ==
    LET g == Gcd(Abs(n), Abs(d))
        s == IF d < 0 THEN -1 ELSE 1
    IN  <<(s * n) \div g, (s * d) \div g>>

Zero == <<0, 1>>
One == <<1, 1>>
Two == <<2, 1>>
Null == <<>>

IsFinite(x) == x[2] # 0
IsNaN(x) == x = NaN

Add(x, y) ==
    IF IsNaN(x) \/ IsNaN(y) THEN NaN
    ELSE IF IsFinite(x) /\ IsFinite(y)
         THEN LET g == Gcd(x[2], y[2])
              IN  Q(x[1] * (y[2] \div g) + y[1] * (x[2] \div g),
                    (x[2] \div g) * y[2])
    ELSE IF IsFinite(x) THEN y
    ELSE IF IsFinite(y) THEN x
    ELSE IF x = y THEN x ELSE NaN

Mul(x, y) ==
    IF IsNaN(x) \/ IsNaN(y) THEN NaN
    ELSE IF IsFinite(x) /\ IsFinite(y)
         THEN LET a == Q(x[1], y[2])
                  b == Q(y[1], x[2])
              IN  <<a[1] * b[1], a[2] * b[2]>>
    ELSE IF Sign(x[1]) * Sign(y[1]) = 0 THEN NaN
    ELSE <<Sign(x[1]) * Sign(y[1]), 0>>

\* x / y; a finite zero divisor is +0 (the only divisor of the code,
\* Math.pow(1 + inflM, m), is never -0 for the explored inputs)
Div(x, y) ==
    IF IsNaN(x) \/ IsNaN(y) THEN NaN
    ELSE IF IsFinite(x) /\ IsFinite(y)
         THEN IF y[1] = 0
              THEN (IF x[1] = 0 THEN NaN ELSE <<Sign(x[1]), 0>>)
              ELSE Mul(x, Q(y[2], y[1]))
    ELSE IF IsFinite(x) THEN Zero
    ELSE IF IsFinite(y) THEN <<x[1] * (IF y[1] < 0 THEN -1 ELSE 1), 0>>
    ELSE NaN

Neg(x) == <<-x[1], x[2]>>
Sub(x, y) == Add(x, Neg(y))

\* x < y as JavaScript evaluates it: false when either side is NaN
Lt(x, y) ==
    IF IsNaN(x) \/ IsNaN(y) THEN FALSE
    ELSE IF IsFinite(x) /\ IsFinite(y) THEN x[1] * y[2] < y[1] * x[2]
    ELSE IF IsFinite(x) THEN y = PosInf
    ELSE IF IsFinite(y) THEN x = NegInf
    ELSE x = NegInf /\ y = PosInf

Leq(x, y) == ~IsNaN(x) /\ ~IsNaN(y) /\ ~Lt(y, x)
Gt(x, y) == Lt(y, x)
Geq(x, y) == Leq(y, x)

\* Math.max(x, y)
MathMax(x, y) ==
    IF IsNaN(x) \/ IsNaN(y) THEN NaN ELSE IF Lt(x, y) THEN y ELSE x

\* Math.pow(x, k) for an integer k >= 0 (Math.pow(x, 0) is 1 for every x)
RECURSIVE Pow(_, _)
Pow(x, k) ==
    IF k = 0 THEN One
    ELSE IF k % 2 = 0 THEN LET h == Pow(x, k \div 2) IN Mul(h, h)
    ELSE Mul(x, Pow(x, k - 1))

Grid == 2 ^ FracBits

\* a finite x rounded to the nearest multiple of 1/Grid, ties to even
RoundGrid(x) ==
    IF ~IsFinite(x) THEN x
    ELSE LET num == x[1] * Grid
             fl == num \div x[2]
             rem == num % x[2]
             k == IF 2 * rem < x[2] THEN fl
                  ELSE IF 2 * rem > x[2] THEN fl + 1
                  ELSE IF fl % 2 = 0 THEN fl ELSE fl + 1
         IN  Q(k, Grid)

----------------------------------------------------------------------------
(* simulateProjection *)

\* mutant: the deflator in place of the inflation factor
InflFactorInverted(p, mm) ==
    Pow(Div(One, Add(One, p.inflationMonthlyRate)), mm)

InflFactor(p, mm) == Pow(Add(One, p.inflationMonthlyRate), mm)

\* mutant: the two indexation branches exchanged
ContributionRealSwapped(p, mm) ==
    IF p.indexation = "inflationAdjusted"
    THEN Div(p.pmt0, Pow(Add(One, p.inflationMonthlyRate), mm))
    ELSE p.pmt0

\* mutant: the contribution is deflated by the factor of the next month
ContributionRealNextFactor(p, mm) ==
    IF p.indexation = "inflationAdjusted" THEN p.pmt0
    ELSE Div(p.pmt0, Pow(Add(One, p.inflationMonthlyRate), mm + 1))

\* contributionReal of month mm
ContributionReal(p, mm) ==
    IF p.indexation = "inflationAdjusted" THEN p.pmt0
    ELSE Div(p.pmt0, InflFactor(p, mm))

\* contributionNominal of month mm
ContributionNominal(p, mm) ==
    IF p.indexation = "inflationAdjusted" THEN Mul(p.pmt0, InflFactor(p, mm))
    ELSE p.pmt0

\* the snapshot pushed for month mm at real balance bal
SimPoint(p, mm, bal) ==
    LET f == InflFactor(p, mm)
    IN  [month |-> mm,
         age |-> Add(p.ageNow, Q(mm, 12)),
         inflFactor |-> f,
         balanceReal |-> bal,
         balanceNominal |-> Mul(bal, f),
         contributionNominal |-> ContributionNominal(p, mm),
         contributionReal |-> ContributionReal(p, mm)]

\* mutant: the contribution is not added
AdvanceIgnoresContribution(p, bal, contributionReal) ==
    Mul(bal, Add(One, p.realMonthlyRate))

\* mutant: a contribution at the beginning of the period stops the growth
AdvanceBeginWithoutGrowth(p, bal, contributionReal) ==
    IF p.timing = "begin" THEN Add(bal, contributionReal)
    ELSE Add(Mul(bal, Add(One, p.realMonthlyRate)), contributionReal)

\* mutant: the two timing branches exchanged
AdvanceTimingSwapped(p, bal, contributionReal) ==
    IF p.timing = "begin"
    THEN Add(Mul(bal, Add(One, p.realMonthlyRate)), contributionReal)
    ELSE Mul(Add(bal, contributionReal), Add(One, p.realMonthlyRate))

\* mutant: the contribution is subtracted instead of added
AdvanceSubtracts(p, bal, contributionReal) ==
    IF p.timing = "begin"
    THEN Mul(Sub(bal, contributionReal), Add(One, p.realMonthlyRate))
    ELSE Sub(Mul(bal, Add(One, p.realMonthlyRate)), contributionReal)

\* The result of one operation on the balance as a double holds it.  A
\* value whose exact fraction fits the model's integers is kept exactly; a
\* longer one is rounded to the nearest multiple of 1/StoreGrid (ties to
\* even), as a double rounds every result to its 53 bits.
StoreGrid == 4 * Grid
StoreExact == 2 ^ 20
Store(x) ==
    IF ~IsFinite(x) \/ (Abs(x[1]) <= StoreExact /\ x[2] <= StoreExact) THEN x
    ELSE LET n == Abs(x[1])
             whole == n \div x[2]
             num == (n % x[2]) * StoreGrid
             fl == num \div x[2]
             rem == num % x[2]
             k == IF 2 * rem < x[2] THEN fl
                  ELSE IF 2 * rem > x[2] THEN fl + 1
                  ELSE IF fl % 2 = 0 THEN fl ELSE fl + 1
         IN  Add(Q(Sign(x[1]) * whole, 1), Q(Sign(x[1]) * k, StoreGrid))

\* one period of flow applied to the real balance
Advance(p, bal, contributionReal) ==
    IF p.timing = "begin"
    THEN Store(Mul(Store(Add(bal, contributionReal)),
                   Add(One, p.realMonthlyRate)))
    ELSE Store(Add(Store(Mul(bal, Add(One, p.realMonthlyRate))),
                   contributionReal))

StartBalance(p) == MathMax(Zero, p.pvToday)

\* The for loop of simulateProjection from month mm at balance bal, as the
\* pair <<number of points pushed, balanceReal of the last point pushed>>;
\* n and last are those of the points pushed so far.  (Only the real
\* balance of a point is computed here: it is all finalBalanceReal reads.)
\* One pass of the loop body at month mm.  The loop state st is
\* <<points pushed, balanceReal of the last point, balanceReal, running>>.
SimIteration(p, mm, st) ==
    IF ~st[4] \/ mm > p.months THEN <<st[1], st[2], st[3], FALSE>>
    ELSE IF mm = p.months THEN <<st[1] + 1, st[3], st[3], FALSE>>
    ELSE LET next == Advance(p, st[3], ContributionReal(p, mm))
         IN  <<st[1] + 1, st[3], next, IsFinite(next)>>

\* k passes from month mm on, evaluated half by half so that a horizon of
\* hundreds of months does not nest hundreds of evaluations
RECURSIVE SimPasses(_, _, _, _)
SimPasses(p, mm, st, k) ==
    IF k <= 0 THEN st
    ELSE IF k = 1 THEN SimIteration(p, mm, st)
    ELSE LET h == k \div 2
             half == SimPasses(p, mm, st, h)
         IN  IF ~half[4] THEN half ELSE SimPasses(p, mm + h, half, k - h)

SimLoop(p, mm, bal, n, last) ==
    LET end == SimPasses(p, mm, <<n, last, bal, TRUE>>, p.months - mm + 1)
    IN  <<end[1], end[2]>>

\* pts.length ? pts[pts.length - 1].balanceReal : NaN
finalBalanceReal(p) ==
    LET end == SimLoop(p, 0, StartBalance(p), 0, NaN)
    IN  IF end[1] # 0 THEN end[2] ELSE NaN

SimEnter ==
    /\ op = "simulateProjection" /\ pc = "start"
    /\ points' = <<>>
    /\ balanceReal' = StartBalance(params)
    /\ m' = 0
    /\ pc' = "loop"
    /\ UNCHANGED <<op, params, low, high, guard, i, result, updates, nsim>>
    /\ UNCHANGED presetVars

\* the loop condition m <= months fails
SimExit ==
    /\ op = "simulateProjection" /\ pc = "loop"
    /\ m > params.months
    /\ result' = points
    /\ pc' = "done"
    /\ UNCHANGED <<op, params, m, balanceReal, points, low, high, guard, i,
                   updates, nsim>>
    /\ UNCHANGED presetVars

\* the last month: the snapshot is pushed and the loop is left
SimLast ==
    /\ op = "simulateProjection" /\ pc = "loop"
    /\ m <= params.months /\ m = params.months
    /\ points' = Append(points, SimPoint(params, m, balanceReal))
    /\ result' = points'
    /\ pc' = "done"
    /\ UNCHANGED <<op, params, m, balanceReal, low, high, guard, i,
                   updates, nsim>>
    /\ UNCHANGED presetVars

\* an earlier month: snapshot, one period of flow, finite balance
SimStep ==
    /\ op = "simulateProjection" /\ pc = "loop"
    /\ m <= params.months /\ m # params.months
    /\ LET pt == SimPoint(params, m, balanceReal)
           next == Advance(params, balanceReal, pt.contributionReal)
       IN  /\ IsFinite(next)
           /\ points' = Append(points, pt)
           /\ balanceReal' = next
    /\ updates' = updates + 1
    /\ m' = m + 1
    /\ UNCHANGED <<op, params, pc, low, high, guard, i, result, nsim>>
    /\ UNCHANGED presetVars

\* mutant: the Number.isFinite break is missing
SimDivergeContinues ==
    /\ op = "simulateProjection" /\ pc = "loop"
    /\ m <= params.months /\ m # params.months
    /\ LET pt == SimPoint(params, m, balanceReal)
           next == Advance(params, balanceReal, pt.contributionReal)
       IN  /\ ~IsFinite(next)
           /\ points' = Append(points, pt)
           /\ balanceReal' = next
    /\ updates' = updates + 1
    /\ m' = m + 1
    /\ UNCHANGED <<op, params, pc, low, high, guard, i, result, nsim>>
    /\ UNCHANGED presetVars

\* an earlier month whose flow makes the balance non-finite: break
SimDiverge ==
    /\ op = "simulateProjection" /\ pc = "loop"
    /\ m <= params.months /\ m # params.months
    /\ LET pt == SimPoint(params, m, balanceReal)
           next == Advance(params, balanceReal, pt.contributionReal)
       IN  /\ ~IsFinite(next)
           /\ points' = Append(points, pt)
           /\ balanceReal' = next
    /\ updates' = updates + 1
    /\ result' = points'
    /\ pc' = "done"
    /\ UNCHANGED <<op, params, m, low, high, guard, i, nsim>>
    /\ UNCHANGED presetVars

NextSim == SimEnter \/ SimExit \/ SimLast \/ SimStep \/ SimDiverge

----------------------------------------------------------------------------
(* monthsToTarget *)

\* mutant: a different default bound
MaxMonthsOfShortDefault(p) ==
    IF p.maxMonths = Null THEN 240 ELSE p.maxMonths[1]

MaxMonthsOf(p) ==
    IF p.maxMonths = Null THEN DefaultMaxMonths ELSE p.maxMonths[1]

\* mutant: the contribution is deflated by the factor of period mm
MttUpdateCurrentFactor(p, mm, bal) ==
    LET inflFactor == Pow(Add(One, p.inflationMonthlyRate), mm)
        contributionReal ==
            IF p.indexation = "inflationAdjusted" THEN p.pmt0
            ELSE Div(p.pmt0, inflFactor)
    IN  IF p.timing = "begin"
        THEN Mul(Add(bal, contributionReal), Add(One, p.realMonthlyRate))
        ELSE Add(Mul(bal, Add(One, p.realMonthlyRate)), contributionReal)

\* the balance after period mm, from the balance bal after period mm - 1
MttUpdate(p, mm, bal) ==
    LET inflFactorPrev == Pow(Add(One, p.inflationMonthlyRate), mm - 1)
        contributionReal ==
            IF p.indexation = "inflationAdjusted" THEN p.pmt0
            ELSE Div(p.pmt0, inflFactorPrev)
    IN  IF p.timing = "begin"
        THEN Store(Mul(Store(Add(bal, contributionReal)),
                       Add(One, p.realMonthlyRate)))
        ELSE Store(Add(Store(Mul(bal, Add(One, p.realMonthlyRate))),
                       contributionReal))

\* mutant: strict comparison
MttAlreadyMetStrict(p) == Lt(p.targetToday, p.pvToday)

MttAlreadyMet(p) == Leq(p.targetToday, p.pvToday)

MttEnter ==
    /\ op = "monthsToTarget" /\ pc = "start"
    /\ IF MttAlreadyMet(params)
       THEN /\ result' = Zero
            /\ pc' = "done"
            /\ UNCHANGED <<balanceReal, m>>
       ELSE /\ balanceReal' = MathMax(Zero, params.pvToday)
            /\ m' = 1
            /\ pc' = "loop"
            /\ UNCHANGED result
    /\ UNCHANGED <<op, params, points, low, high, guard, i, updates, nsim>>
    /\ UNCHANGED presetVars

\* mutant: the target test comes before the Number.isFinite test
MttOutcomeTargetFirst(p, mm, next) ==
    IF Geq(next, p.targetToday) THEN "found"
    ELSE IF ~IsFinite(next) THEN "null"
    ELSE "continue"

\* mutant: the target must be exceeded
MttOutcomeStrict(p, mm, next) ==
    IF ~IsFinite(next) THEN "null"
    ELSE IF Gt(next, p.targetToday) THEN "found"
    ELSE "continue"

\* what the loop body does with the updated balance next in period mm:
\* "null", "found" or "continue"
MttOutcome(p, mm, next) ==
    IF ~IsFinite(next) THEN "null"
    ELSE IF Geq(next, p.targetToday) THEN "found"
    ELSE "continue"

MttPeriod ==
    /\ op = "monthsToTarget" /\ pc = "loop"
    /\ m <= MaxMonthsOf(params)
    /\ LET next == MttUpdate(params, m, balanceReal)
           out == MttOutcome(params, m, next)
       IN  /\ balanceReal' = next
           /\ IF out = "null"
              THEN result' = Null /\ pc' = "done" /\ m' = m
              ELSE IF out = "found"
              THEN result' = Q(m, 1) /\ pc' = "done" /\ m' = m
              ELSE result' = result /\ pc' = pc /\ m' = m + 1
    /\ updates' = updates + 1
    /\ UNCHANGED <<op, params, points, low, high, guard, i, nsim>>
    /\ UNCHANGED presetVars

\* the loop condition m <= maxMonths fails
MttExhausted ==
    /\ op = "monthsToTarget" /\ pc = "loop"
    /\ m > MaxMonthsOf(params)
    /\ result' = Null
    /\ pc' = "done"
    /\ UNCHANGED <<op, params, m, balanceReal, points, low, high, guard, i,
                   updates, nsim>>
    /\ UNCHANGED presetVars

\* the for loop of monthsToTarget from period mm with balance bal, as a value
RECURSIVE MttLoop(_, _, _)
MttLoop(p, mm, bal) ==
    IF mm > MaxMonthsOf(p) THEN Null
    ELSE LET next == MttUpdate(p, mm, bal)
             out == MttOutcome(p, mm, next)
         IN  IF out = "null" THEN Null
             ELSE IF out = "found" THEN Q(mm, 1)
             ELSE MttLoop(p, mm + 1, next)

\* the value monthsToTarget returns
monthsToTarget(p) ==
    IF MttAlreadyMet(p) THEN Zero
    ELSE MttLoop(p, 1, MathMax(Zero, p.pvToday))

NextMtt == MttEnter \/ MttPeriod \/ MttExhausted

----------------------------------------------------------------------------
(* solveRequiredPmt *)

\* the closure reaches of solveRequiredPmt
reaches(p, pmt0) ==
    LET end == finalBalanceReal([p EXCEPT !.pmt0 = pmt0])
    IN  IsFinite(end) /\ Geq(end, p.targetToday)

\* mutant: strict comparison of target and present value
SolveGuardStrict(p) ==
    IF p.months <= 0 THEN "null"
    ELSE IF Lt(p.targetToday, p.pvToday) THEN "zero"
    ELSE "search"

\* mutant: the two early returns in the other order
SolveGuardTargetFirst(p) ==
    IF Leq(p.targetToday, p.pvToday) THEN "zero"
    ELSE IF p.months <= 0 THEN "null"
    ELSE "search"

\* the two early returns: "null", "zero", or "search"
SolveGuard(p) ==
    IF p.months <= 0 THEN "null"
    ELSE IF Leq(p.targetToday, p.pvToday) THEN "zero"
    ELSE "search"

\* mutant: the first guess is not raised to 1
InitialHighUnfloored(p) ==
    Div(Sub(p.targetToday, p.pvToday), Q(p.months, 1))

InitialHigh(p) ==
    MathMax(One, Div(Sub(p.targetToday, p.pvToday), Q(p.months, 1)))

\* the midpoint (low + high) / 2 as a representable number
Mid(lo, hi) == RoundGrid(Div(Add(lo, hi), Two))

\* mutant: the lower end of the bracket is returned
SolveReturnsLow(lo, hi) == MathMax(Zero, lo)

SolveReturnValue(lo, hi) == MathMax(Zero, hi)

SolveEnter ==
    /\ op = "solveRequiredPmt" /\ pc = "start"
    /\ LET g == SolveGuard(params)
       IN  IF g = "null"
           THEN result' = Null /\ pc' = "done" /\ UNCHANGED <<low, high, guard>>
           ELSE IF g = "zero"
           THEN result' = Zero /\ pc' = "done" /\ UNCHANGED <<low, high, guard>>
           ELSE /\ low' = Zero
                /\ high' = InitialHigh(params)
                /\ guard' = 0
                /\ pc' = "double"
                /\ UNCHANGED result
    /\ UNCHANGED <<op, params, m, balanceReal, points, i, updates, nsim>>
    /\ UNCHANGED presetVars

\* one pass of the while loop: high is doubled
SolveDouble ==
    /\ op = "solveRequiredPmt" /\ pc = "double"
    /\ ~reaches(params, high) /\ guard < DoublingCap
    /\ nsim' = nsim + 1
    /\ high' = Mul(high, Two)
    /\ IF Gt(high', Q(HighCeiling, 1))
       THEN result' = Null /\ pc' = "done" /\ guard' = guard
       ELSE result' = result /\ pc' = pc /\ guard' = guard + 1
    /\ UNCHANGED <<op, params, m, balanceReal, points, low, i, updates>>
    /\ UNCHANGED presetVars

\* mutant: the loop gives up after one doubling
SolveBracketEarly ==
    /\ op = "solveRequiredPmt" /\ pc = "double"
    /\ ~(~reaches(params, high) /\ guard < 1)
    /\ nsim' = nsim + 1
    /\ i' = 0
    /\ pc' = "bisect"
    /\ UNCHANGED <<op, params, m, balanceReal, points, low, high, guard,
                   result, updates>>
    /\ UNCHANGED presetVars

\* the while condition fails: the bisection starts
SolveBracket ==
    /\ op = "solveRequiredPmt" /\ pc = "double"
    /\ ~(~reaches(params, high) /\ guard < DoublingCap)
    /\ nsim' = nsim + 1
    /\ i' = 0
    /\ pc' = "bisect"
    /\ UNCHANGED <<op, params, m, balanceReal, points, low, high, guard,
                   result, updates>>
    /\ UNCHANGED presetVars

\* mutant: the two branches of the bisection exchanged
SolveBisectInverted ==
    /\ op = "solveRequiredPmt" /\ pc = "bisect"
    /\ i < BisectionSteps
    /\ LET mid == Mid(low, high)
       IN  IF reaches(params, mid)
           THEN low' = mid /\ high' = high
           ELSE high' = mid /\ low' = low
    /\ nsim' = nsim + 1
    /\ i' = i + 1
    /\ UNCHANGED <<op, params, pc, m, balanceReal, points, guard, result,
                   updates>>
    /\ UNCHANGED presetVars

\* mutant: the bisection counter is not advanced
SolveBisectNoCount ==
    /\ op = "solveRequiredPmt" /\ pc = "bisect"
    /\ i < BisectionSteps
    /\ LET mid == Mid(low, high)
       IN  IF reaches(params, mid)
           THEN high' = mid /\ low' = low
           ELSE low' = mid /\ high' = high
    /\ nsim' = nsim + 1
    /\ UNCHANGED <<op, params, pc, m, balanceReal, points, guard, result,
                   updates, i>>
    /\ UNCHANGED presetVars

SolveBisect ==
    /\ op = "solveRequiredPmt" /\ pc = "bisect"
    /\ i < BisectionSteps
    /\ LET mid == Mid(low, high)
       IN  IF reaches(params, mid)
           THEN high' = mid /\ low' = low
           ELSE low' = mid /\ high' = high
    /\ nsim' = nsim + 1
    /\ i' = i + 1
    /\ UNCHANGED <<op, params, pc, m, balanceReal, points, guard, result,
                   updates>>
    /\ UNCHANGED presetVars

SolveReturn ==
    /\ op = "solveRequiredPmt" /\ pc = "bisect"
    /\ i >= BisectionSteps
    /\ result' = SolveReturnValue(low, high)
    /\ pc' = "done"
    /\ UNCHANGED <<op, params, m, balanceReal, points, low, high, guard, i,
                   updates, nsim>>
    /\ UNCHANGED presetVars

NextSolve ==
    SolveEnter \/ SolveDouble \/ SolveBracket \/ SolveBisect \/ SolveReturn

----------------------------------------------------------------------------
(* Explored inputs and specifications *)

Num(S) == {Q(n, 1) : n \in S}

Amounts == Num(-1 .. MaxAmount)
RealRates == {Q(-2, 1), Q(-1, 1), Q(-1, 2), Zero, One}
InflationRates == {Q(-2, 1), Q(-1, 1), Zero, One}
Indexations == {"inflationAdjusted", "fixedNominal"}
Timings == {"end", "begin"}
Ages == {Q(30, 1)}

Locals ==
    /\ pc = "start"
    /\ m = 0
    /\ balanceReal = Zero
    /\ points = <<>>
    /\ low = Zero
    /\ high = Zero
    /\ guard = 0
    /\ i = 0
    /\ result = Null
    /\ updates = 0
    /\ nsim = 0
    /\ NoPresets

InitSim ==
    /\ op = "simulateProjection"
    /\ params \in [pvToday : Amounts, pmt0 : Amounts,
                   months : -1 .. MaxHorizon, ageNow : Ages,
                   realMonthlyRate : RealRates,
                   inflationMonthlyRate : InflationRates,
                   indexation : Indexations, timing : Timings,
                   targetToday : {Zero}, maxMonths : {Null}]
    /\ Locals

\* maxMonths given
MttGiven ==
    [pvToday : Num(-1 .. MaxAmount - 1), pmt0 : Num(0 .. MaxAmount),
     months : {0}, ageNow : Ages,
     realMonthlyRate : {Q(-1, 1), Q(-1, 2), Zero, One},
     inflationMonthlyRate : {Q(-1, 1), Zero, One},
     indexation : Indexations, timing : Timings,
     targetToday : Num(0 .. MaxAmount + 1),
     maxMonths : {<<k>> : k \in 0 .. MaxMonthsArg}]

\* maxMonths omitted: inputs whose balances stay small over 2400 periods
MttDefaulted ==
    [pvToday : {Zero, Two}, pmt0 : Num(0 .. 1), months : {0}, ageNow : Ages,
     realMonthlyRate : {Q(-1, 1), Zero}, inflationMonthlyRate : {Zero},
     indexation : Indexations, timing : Timings, targetToday : {Two},
     maxMonths : {Null}]

InitMtt ==
    /\ op = "monthsToTarget"
    /\ params \in MttGiven \cup MttDefaulted
    /\ Locals

SolveHorizons == {-1, 0} \cup {2 ^ k : k \in 0 .. HorizonLog}

SolveParams ==
    [pvToday : Num(0 .. MaxAmount), pmt0 : {Zero},
     months : SolveHorizons, ageNow : Ages,
     realMonthlyRate : RealRates,
     inflationMonthlyRate : {Q(-1, 1), Zero, One},
     indexation : Indexations, timing : Timings,
     targetToday : Num(0 .. MaxAmount + 1),
     maxMonths : {Null}]

InitSolve ==
    /\ op = "solveRequiredPmt"
    /\ params \in SolveParams
    /\ Locals

SpecSim == InitSim /\ [][NextSim]_vars
SpecMtt == InitMtt /\ [][NextMtt]_vars
SpecSolve == InitSolve /\ [][NextSolve]_vars

Init == InitSim \/ InitMtt \/ InitSolve
Next == NextSim \/ NextMtt \/ NextSolve
Spec == Init /\ [][Next]_vars

----------------------------------------------------------------------------
(* Properties *)

\* the final balance read off a returned trajectory
FinalOf(pts) == IF Len(pts) # 0 THEN pts[Len(pts)].balanceReal ELSE NaN

\* the step machine and the recursive loop compute the same final balance
FinalBalanceAgrees ==
    (op = "simulateProjection" /\ pc = "done")
        => FinalOf(result) = finalBalanceReal(params)

\* C1: in a simulateProjection trajectory the first real balance is
\* max(0, pv); every later point's real balance is (b + c) * (1 + r) under
\* begin timing and b * (1 + r) + c under end timing, b and c being the real
\* balance and real contribution of the point before it; the last point is
\* not advanced: a complete trajectory for horizon H rests on exactly H
\* updates, and no run applies more than H.
C1_BalanceRecurrence ==
    (op = "simulateProjection" /\ pc # "start") =>
        /\ Len(points) >= 1 =>
              points[1].balanceReal =
                  (IF Lt(params.pvToday, Zero) THEN Zero ELSE params.pvToday)
        /\ \A k \in 1 .. Len(points) - 1 :
              LET b == points[k].balanceReal
                  c == points[k].contributionReal
                  g == Add(One, params.realMonthlyRate)
              IN  points[k + 1].balanceReal =
                      (IF params.timing = "begin" THEN Mul(Add(b, c), g)
                       ELSE Add(Mul(b, g), c))
        /\ params.months >= 0 => updates <= params.months
        /\ (pc = "done" /\ params.months >= 0
               /\ Len(points) = params.months + 1) =>
              /\ updates = params.months
              /\ points[Len(points)].balanceReal = balanceReal

C1_Witness ==
    /\ op = "simulateProjection" /\ pc = "done"
    /\ params.months = MaxHorizon /\ Len(result) = MaxHorizon + 1
    /\ params.pvToday = Q(-1, 1) /\ params.pmt0 = One
    /\ params.realMonthlyRate = One /\ params.timing = "begin"
    /\ updates = MaxHorizon

\* C2: for an integer horizon H >= 0 simulateProjection returns the points
\* of months 0, 1, ... in this order; H + 1 of them, unless an update made
\* the real balance non-finite, and then only the points pushed before that
\* update (as many as updates were executed, at most H, all with a finite
\* balance).
C2_TrajectoryLength ==
    (op = "simulateProjection" /\ pc = "done" /\ params.months >= 0) =>
        /\ result = points
        /\ \A k \in 1 .. Len(result) : result[k].month = k - 1
        /\ IF IsFinite(balanceReal)
           THEN Len(result) = params.months + 1
           ELSE /\ Len(result) = updates
                /\ Len(result) <= params.months
                /\ \A k \in 1 .. Len(result) : IsFinite(result[k].balanceReal)

C2_Witness ==
    /\ op = "simulateProjection" /\ pc = "done"
    /\ params.months = MaxHorizon
    /\ ~IsFinite(balanceReal)
    /\ Len(result) = 2

\* C3: every point has inflFactor f = (1 + inflation)^month; under
\* inflationAdjusted its nominal contribution is base * f and its real one
\* base; under fixedNominal its nominal contribution is base and its real
\* one base / f.
C3_ContributionUnits ==
    op = "simulateProjection" =>
        \A k \in 1 .. Len(points) :
            LET pt == points[k]
                f == Pow(Add(One, params.inflationMonthlyRate), pt.month)
            IN  /\ pt.inflFactor = f
                /\ IF params.indexation = "inflationAdjusted"
                   THEN /\ pt.contributionNominal = Mul(params.pmt0, f)
                        /\ pt.contributionReal = params.pmt0
                   ELSE /\ pt.contributionNominal = params.pmt0
                        /\ pt.contributionReal = Div(params.pmt0, f)

C3_Witness ==
    /\ op = "simulateProjection" /\ pc = "done"
    /\ params.indexation = "fixedNominal"
    /\ params.inflationMonthlyRate = One /\ params.pmt0 = One
    /\ Len(points) = 3
    /\ points[3].contributionReal = Q(1, 4)
    /\ points[3].contributionNominal = One

\* the number of points simulateProjection returns for p
SimLength(p) == SimLoop(p, 0, StartBalance(p), 0, NaN)[1]

C7_FirstPeriodMeetingTarget ==
    (op = "monthsToTarget" /\ Gt(params.targetToday, params.pvToday)) =>
        /\ pc = "loop" => updates = m - 1
        /\ (pc = "loop" /\ m >= 2) =>
              IsFinite(balanceReal) /\ Lt(balanceReal, params.targetToday)
        /\ (pc = "done" /\ result # Null) =>
              /\ result[2] = 1
              /\ 1 <= result[1]
              /\ result[1] <=
                   (IF params.maxMonths = Null THEN 2400
                    ELSE params.maxMonths[1])
              /\ updates = result[1]
              /\ IsFinite(balanceReal)
              /\ Geq(balanceReal, params.targetToday)

C7_Witness ==
    /\ op = "monthsToTarget" /\ pc = "done"
    /\ Gt(params.targetToday, params.pvToday)
    /\ result = Q(3, 1)
    /\ params.indexation = "fixedNominal"
    /\ params.inflationMonthlyRate = One

\* C8: whenever target <= pv, monthsToTarget returns 0 without running a
\* period, whatever the contribution, rates, policy and maxMonths are.
C8_AlreadyMetReturnsZero ==
    (op = "monthsToTarget" /\ Leq(params.targetToday, params.pvToday)) =>
        /\ updates = 0
        /\ pc # "loop"
        /\ pc = "done" => result = Zero

C8_Witness ==
    /\ op = "monthsToTarget" /\ pc = "done"
    /\ params.targetToday = params.pvToday
    /\ params.maxMonths = <<0>>
    /\ params.realMonthlyRate = Q(-1, 2)
    /\ result = Zero

\* C9: when target > pv, monthsToTarget returns null when all maxMonths
\* periods (2400 when maxMonths is not given) ended below the target, and
\* returns null at the first period that ends with a non-finite balance,
\* +Infinity included: the loop never goes on from, and never reports, a
\* non-finite balance.
C9_NullWhenUnreached ==
    (op = "monthsToTarget" /\ Gt(params.targetToday, params.pvToday)) =>
        LET bound == IF params.maxMonths = Null THEN 2400
                     ELSE params.maxMonths[1]
        IN  /\ pc = "loop" => IsFinite(balanceReal) /\ m <= bound + 1
            /\ (pc = "done" /\ ~IsFinite(balanceReal)) => result = Null
            /\ (pc = "done" /\ IsFinite(balanceReal)
                  /\ Lt(balanceReal, params.targetToday)) =>
                  result = Null /\ updates = bound
            /\ (pc = "done" /\ result = Null /\ IsFinite(balanceReal)) =>
                  updates = bound

C9_Witness ==
    /\ op = "monthsToTarget" /\ pc = "done"
    /\ Gt(params.targetToday, params.pvToday)
    /\ balanceReal = PosInf
    /\ result = Null
    /\ updates = 2

\* a run that exhausts the default bound (reachable: its negation is
\* violated under SpecMtt)
DefaultBoundExhausted ==
    /\ op = "monthsToTarget" /\ pc = "done"
    /\ params.maxMonths = Null
    /\ result = Null /\ updates = 2400

\* C4, as stated: every non-null result c of solveRequiredPmt is >= 0 and
\* reaches the target: simulateProjection with base contribution c and the
\* same other arguments ends with a finite final real balance >= target.
C4_ResultReaches ==
    (op = "solveRequiredPmt" /\ pc = "done" /\ result # Null) =>
        /\ Geq(result, Zero)
        /\ LET end == finalBalanceReal([params EXCEPT !.pmt0 = result])
           IN  IsFinite(end) /\ Geq(end, params.targetToday)

\* C4, amended: the same, when target > pv, or when target <= pv and the
\* real rate is >= 0.
C4_ResultReachesWhenSearched ==
    (/\ op = "solveRequiredPmt" /\ pc = "done" /\ result # Null
     /\ \/ Gt(params.targetToday, params.pvToday)
        \/ Geq(params.realMonthlyRate, Zero)) =>
        /\ Geq(result, Zero)
        /\ LET end == finalBalanceReal([params EXCEPT !.pmt0 = result])
           IN  IsFinite(end) /\ Geq(end, params.targetToday)

C4_Witness ==
    /\ op = "solveRequiredPmt" /\ pc = "done" /\ result # Null
    /\ Gt(params.targetToday, params.pvToday)
    /\ params.realMonthlyRate = Q(-1, 2)
    /\ params.indexation = "fixedNominal"
    /\ params.inflationMonthlyRate = One
    /\ params.months = 2
    /\ Gt(result, One)
    /\ Gt(low, Zero)
    /\ i = BisectionSteps

\* C5, as stated: solveRequiredPmt returns 0 whenever target <= pv,
\* whatever the other arguments are.
C5_ZeroWhenAlreadyMet ==
    (/\ op = "solveRequiredPmt" /\ pc = "done"
     /\ Leq(params.targetToday, params.pvToday)) =>
        result = Zero

\* C5, amended: solveRequiredPmt returns 0 whenever target <= pv and
\* months > 0 (for months <= 0 it returns null).
C5_ZeroWhenAlreadyMetAndHorizonPositive ==
    (/\ op = "solveRequiredPmt" /\ pc = "done"
     /\ Leq(params.targetToday, params.pvToday)
     /\ params.months > 0) =>
        result = Zero

C5_Witness ==
    /\ op = "solveRequiredPmt" /\ pc = "done"
    /\ params.targetToday = params.pvToday
    /\ params.months > 0
    /\ params.realMonthlyRate = Q(-2, 1)
    /\ result = Zero

\* C6: whenever months <= 0, solveRequiredPmt returns null without running
\* a simulation or entering the search, also when target <= pv.
C6_NullOnInvalidHorizon ==
    (op = "solveRequiredPmt" /\ params.months <= 0) =>
        /\ nsim = 0
        /\ pc \in {"start", "done"}
        /\ pc = "done" => result = Null

C6_Witness ==
    /\ op = "solveRequiredPmt" /\ pc = "done"
    /\ params.months = 0
    /\ Leq(params.targetToday, params.pvToday)
    /\ result = Null

----------------------------------------------------------------------------
(* Rate conversions: clamp, annualToMonthlyRate, realMonthlyRateFromGross *)

\* Math.min(x, y)
MathMin(x, y) ==
    IF IsNaN(x) \/ IsNaN(y) THEN NaN ELSE IF Lt(y, x) THEN y ELSE x

clamp(n, min, max) == MathMin(max, MathMax(min, n))

AbsQ(x) == <<Abs(x[1]), x[2]>>

\* the e with 2^e <= x < 2^(e+1), for a finite x > 0
RECURSIVE Exponent(_)
Exponent(x) ==
    IF Geq(x, Two) THEN Exponent(Div(x, Two)) + 1
    ELSE IF Lt(x, One) THEN Exponent(Mul(x, Two)) - 1
    ELSE 0

Pow2(e) == IF e >= 0 THEN Q(2 ^ e, 1) ELSE Q(1, 2 ^ (-e))

\* The sum 1 + annualRate as a floating-point number: x rounded to
\* FracBits + 1 significant bits, ties to even.  A double has 53 of them;
\* what matters is that a rate far below one unit in the last place of 1
\* is absorbed by the addition.
Fl(x) ==
    IF ~IsFinite(x) \/ x[1] = 0 THEN x
    ELSE LET a == AbsQ(x)
             ulp == Pow2(Exponent(a) - FracBits)
             q == Div(a, ulp)
             fl == q[1] \div q[2]
             rem == q[1] % q[2]
             k == IF 2 * rem < q[2] THEN fl
                  ELSE IF 2 * rem > q[2] THEN fl + 1
                  ELSE IF fl % 2 = 0 THEN fl ELSE fl + 1
         IN  Mul(Q(Sign(x[1]) * k, 1), ulp)

\* the monthly growth factors whose twelfth power the model can represent
RootValues == {Q(1, 2), One, Two}

\* Math.pow(x, 1 / 12) for an x that is the twelfth power of a RootValue
\* (the explored annual rates are chosen so); the rounding error of the
\* library routine, a few units in the last place, is not represented
Root12(x) == CHOOSE y \in RootValues : Pow(y, 12) = x

\* mutant: a different floor value
annualToMonthlyRateShortFloor(annualRate) ==
    IF Leq(annualRate, Q(-1, 1)) THEN Q(-99, 100)
    ELSE Sub(Root12(Fl(Add(One, annualRate))), One)

\* mutant: the final "- 1" is missing
annualToMonthlyRateAsFactor(annualRate) ==
    IF Leq(annualRate, Q(-1, 1)) THEN Q(-999999, 1000000)
    ELSE Root12(Fl(Add(One, annualRate)))

annualToMonthlyRate(annualRate) ==
    IF Leq(annualRate, Q(-1, 1)) THEN Q(-999999, 1000000)
    ELSE Sub(Root12(Fl(Add(One, annualRate))), One)

\* mutant: the tax rate is used as given
realMonthlyRateFromGrossRawTax(p) ==
    LET g == p.grossMonthlyRate
        tax == p.taxOnGainsRate
        infl == p.inflationMonthlyRate
        netNominal == Add(One, Mul(g, Sub(One, tax)))
        real == Sub(Div(netNominal, Add(One, infl)), One)
    IN  clamp(real, Q(-99, 100), Q(10, 1))

realMonthlyRateFromGross(p) ==
    LET g == p.grossMonthlyRate
        tax == clamp(p.taxOnGainsRate, Zero, One)
        infl == p.inflationMonthlyRate
        netNominal == Add(One, Mul(g, Sub(One, tax)))
        real == Sub(Div(netNominal, Add(One, infl)), One)
    IN  clamp(real, Q(-99, 100), Q(10, 1))

AnnualCall ==
    /\ op = "annualToMonthlyRate" /\ pc = "start"
    /\ result' = annualToMonthlyRate(params.annualRate)
    /\ pc' = "done"
    /\ UNCHANGED <<op, params, m, balanceReal, points, low, high, guard, i,
                   updates, nsim>>
    /\ UNCHANGED presetVars

RealRateCall ==
    /\ op = "realMonthlyRateFromGross" /\ pc = "start"
    /\ result' = realMonthlyRateFromGross(params)
    /\ pc' = "done"
    /\ UNCHANGED <<op, params, m, balanceReal, points, low, high, guard, i,
                   updates, nsim>>
    /\ UNCHANGED presetVars

NextRate == AnnualCall \/ RealRateCall

\* annual rates: at or below -1, exact twelfth powers, and two rates below
\* the precision of the sum 1 + annualRate
TinyRates == {Q(1, 4 * Grid), Q(-1, 8 * Grid)}
AnnualRates ==
    {Q(-2, 1), Q(-3, 2), Q(-1, 1)}
        \cup {Sub(Pow(y, 12), One) : y \in RootValues} \cup TinyRates

GrossRates == {Q(-1000, 1), Q(-2, 1), Q(-1, 1), Q(1, 100), Q(1000, 1)}
TaxRates == {Q(-1, 1), Zero, Q(3, 20), Q(1, 2), One, Two}
RateInflations == {Q(-1, 1), Zero, Q(3, 1000), Q(1000, 1)}

InitRate ==
    /\ \/ /\ op = "annualToMonthlyRate"
          /\ params \in [annualRate : AnnualRates]
       \/ /\ op = "realMonthlyRateFromGross"
          /\ params \in [grossMonthlyRate : GrossRates,
                         taxOnGainsRate : TaxRates,
                         inflationMonthlyRate : RateInflations]
    /\ Locals

SpecRate == InitRate /\ [][NextRate]_vars

\* C11: the result of realMonthlyRateFromGross lies in [-0.99, 10] for every
\* gross rate, tax rate and inflation rate, a zero divisor (inflation = -1)
\* and large magnitudes included.
C11_WithinClampRange ==
    (op = "realMonthlyRateFromGross" /\ pc = "done")
        => /\ Leq(Q(-99, 100), result)
           /\ Leq(result, Q(10, 1))

\* C12: for every annualRate <= -1 annualToMonthlyRate returns exactly
\* -0.999999, never NaN.
C12_FloorAtOrBelowMinusOne ==
    (op = "annualToMonthlyRate" /\ pc = "done"
        /\ Leq(params.annualRate, Q(-1, 1)))
        => /\ result = Q(-999999, 1000000)
           /\ ~IsNaN(result)

C12_Witness ==
    /\ op = "annualToMonthlyRate" /\ pc = "done"
    /\ params.annualRate = Q(-3, 2)
    /\ result = Q(-999999, 1000000)

RoundTripTolerance == Q(1, Grid)

\* the round trip (1 + m)^12 = 1 + annualRate within the tolerance
RoundTrips(annualRate, mr) ==
    Leq(AbsQ(Sub(Pow(Add(One, mr), 12), Add(One, annualRate))),
        RoundTripTolerance)

RateScenario ==
    [grossMonthlyRate |-> Q(1, 100), taxOnGainsRate |-> Q(3, 20),
     inflationMonthlyRate |-> Q(3, 1000)]

\* C16: realMonthlyRateFromGross(0.01, 0.15, 0.003) is 0.006522 to within
\* 0.0000005.
C16_ScenarioValue ==
    (op = "realMonthlyRateFromGross" /\ pc = "done" /\ params = RateScenario)
        => /\ Leq(Q(13043, 2000000), result)
           /\ Leq(result, Q(13045, 2000000))

\* what the code returns for that scenario: 11/2006 = 0.0054835...
RateScenarioReturns ==
    (op = "realMonthlyRateFromGross" /\ pc = "done" /\ params = RateScenario)
        => result = Q(11, 2006)

----------------------------------------------------------------------------
(* parseNumberBR.  A string is a sequence of one-character strings. *)

MaxLen == 3

Digits == {"0", "1", "2", "3", "4", "5", "6", "7", "8", "9"}

DigitValue(c) ==
    CASE c = "0" -> 0 [] c = "1" -> 1 [] c = "2" -> 2 [] c = "3" -> 3
      [] c = "4" -> 4 [] c = "5" -> 5 [] c = "6" -> 6 [] c = "7" -> 7
      [] c = "8" -> 8 [] c = "9" -> 9

IsSpace(c) == c = " "
NotDot(c) == c # "."
IsDot(c) == c = "."
IsDigit(c) == c \in Digits
IsNumeric(c) == c \in Digits \cup {".", "-"}

\* value.trim()
RECURSIVE Trim(_)
Trim(s) ==
    IF s = <<>> THEN s
    ELSE IF IsSpace(Head(s)) THEN Trim(Tail(s))
    ELSE IF IsSpace(s[Len(s)]) THEN Trim(SubSeq(s, 1, Len(s) - 1))
    ELSE s

\* .replace(/\./g, "")
RemoveDots(s) == SelectSeq(s, NotDot)

\* mutant: every comma becomes a decimal point
RECURSIVE ReplaceEveryComma(_)
ReplaceEveryComma(s) ==
    IF s = <<>> THEN s
    ELSE <<IF Head(s) = "," THEN "." ELSE Head(s)>>
             \o ReplaceEveryComma(Tail(s))

\* .replace(",", "."): a string pattern replaces the first occurrence only
RECURSIVE ReplaceFirstComma(_)
ReplaceFirstComma(s) ==
    IF s = <<>> THEN s
    ELSE IF Head(s) = "," THEN <<".">> \o Tail(s)
    ELSE <<Head(s)>> \o ReplaceFirstComma(Tail(s))

\* .replace(/[^\d.-]/g, "")
KeepNumeric(s) == SelectSeq(s, IsNumeric)

\* the integer written by a sequence of digits
RECURSIVE DigitsValue(_)
DigitsValue(s) ==
    IF s = <<>> THEN 0
    ELSE 10 * DigitsValue(SubSeq(s, 1, Len(s) - 1)) + DigitValue(s[Len(s)])

\* the position of the first "." of s, or Len(s) + 1
RECURSIVE DotPosition(_)
DotPosition(s) ==
    IF s = <<>> \/ Head(s) = "." THEN 1 ELSE 1 + DotPosition(Tail(s))

\* Number(v) for a v made of digits, "." and "-": the empty string is 0; an
\* optional leading "-", then digits with at most one "." and at least one
\* digit, is that decimal; everything else is NaN
ToNumber(v) ==
    IF v = <<>> THEN Zero
    ELSE LET neg == Head(v) = "-"
             body == IF neg THEN Tail(v) ELSE v
             digits == SelectSeq(body, IsDigit)
             dots == Len(SelectSeq(body, IsDot))
             decimals == Len(body) - DotPosition(body)
         IN  IF Len(digits) + dots # Len(body) \/ dots > 1 \/ digits = <<>>
             THEN NaN
             ELSE LET q == Q(DigitsValue(digits),
                             10 ^ (IF dots = 1 THEN decimals ELSE 0))
                  IN  IF neg THEN Neg(q) ELSE q

parseNumberBR(value) ==
    LET v == KeepNumeric(ReplaceFirstComma(RemoveDots(Trim(value))))
        n == ToNumber(v)
    IN  IF IsFinite(n) THEN n ELSE Zero

ParseCall ==
    /\ op = "parseNumberBR" /\ pc = "start"
    /\ result' = parseNumberBR(params.value)
    /\ pc' = "done"
    /\ UNCHANGED <<op, params, m, balanceReal, points, low, high, guard, i,
                   updates, nsim>>
    /\ UNCHANGED presetVars

NextParse == ParseCall

Chars == {"0", "7", ".", ",", "-", " ", "R"}

RECURSIVE StringsUpTo(_)
StringsUpTo(n) ==
    IF n = 0 THEN {<<>>}
    ELSE LET shorter == StringsUpTo(n - 1)
         IN  shorter \cup {Append(s, c) : s \in shorter, c \in Chars}

\* the strings of the unit tests: "1.234,56", "  7.000  ", "R$ -2,5"
TestStrings ==
    {<<"1", ".", "2", "3", "4", ",", "5", "6">>,
     <<" ", " ", "7", ".", "0", "0", "0", " ", " ">>,
     <<"R", "$", " ", "-", "2", ",", "5">>}

InitParse ==
    /\ op = "parseNumberBR"
    /\ params \in [value : StringsUpTo(MaxLen) \cup TestStrings]
    /\ Locals

SpecParse == InitParse /\ [][NextParse]_vars

\* the text the claim describes, read off the string in one pass: digits
\* and "-" are kept, the first "," becomes the decimal point, every "."
\* and every other character is dropped
RECURSIVE Remaining(_, _)
Remaining(s, commaSeen) ==
    IF s = <<>> THEN <<>>
    ELSE LET c == Head(s)
         IN  IF c \in Digits \cup {"-"}
             THEN <<c>> \o Remaining(Tail(s), commaSeen)
             ELSE IF c = "," /\ ~commaSeen
             THEN <<".">> \o Remaining(Tail(s), TRUE)
             ELSE Remaining(Tail(s), commaSeen)

\* C17: parseNumberBR(s) is the number read from the remaining text, 0 when
\* that text is not a finite number, and so always finite; the three
\* strings of the tests give 1234.56, 7000 and -2.5.
C17_ParsesRemainingText ==
    (op = "parseNumberBR" /\ pc = "done")
        => LET n == ToNumber(Remaining(params.value, FALSE))
           IN  /\ IsFinite(result)
               /\ result = (IF IsFinite(n) THEN n ELSE Zero)
               /\ params.value = <<"1", ".", "2", "3", "4", ",", "5", "6">>
                      => result = Q(123456, 100)
               /\ params.value = <<" ", " ", "7", ".", "0", "0", "0", " ", " ">>
                      => result = Q(7000, 1)
               /\ params.value = <<"R", "$", " ", "-", "2", ",", "5">>
                      => result = Q(-5, 2)

C17_Witness ==
    /\ op = "parseNumberBR" /\ pc = "done"
    /\ params.value = <<",", ",", "7">>
    /\ result = Q(7, 10)

\* a text that is not a number is read as 0
C17_WitnessNotANumber ==
    /\ op = "parseNumberBR" /\ pc = "done"
    /\ params.value = <<"7", "-", "7">>
    /\ result = Zero

----------------------------------------------------------------------------
(* The scenarios of the unit tests: finalBalanceReal and solveRequiredPmt *)

\* finalBalanceReal(params), which runs simulateProjection
FinalCall ==
    /\ op = "finalBalanceReal" /\ pc = "start"
    /\ result' = finalBalanceReal(params)
    /\ nsim' = nsim + 1
    /\ pc' = "done"
    /\ UNCHANGED <<op, params, m, balanceReal, points, low, high, guard, i,
                   updates>>
    /\ UNCHANGED presetVars

\* simulateProjection test: pv 1000, pmt0 500, 2 months, r 0.01,
\* inflation 0.002, inflationAdjusted, end
SimScenario ==
    [pvToday |-> Q(1000, 1), pmt0 |-> Q(500, 1), months |-> 2,
     ageNow |-> Q(30, 1), realMonthlyRate |-> Q(1, 100),
     inflationMonthlyRate |-> Q(1, 500), indexation |-> "inflationAdjusted",
     timing |-> "end", targetToday |-> Zero, maxMonths |-> Null]

\* solveRequiredPmt test: pv 5000, target 50000, 120 months, r 0.005,
\* inflation 0.002, inflationAdjusted, end
SolveScenario ==
    [pvToday |-> Q(5000, 1), pmt0 |-> Zero, months |-> 120,
     ageNow |-> Q(30, 1), realMonthlyRate |-> Q(1, 200),
     inflationMonthlyRate |-> Q(1, 500), indexation |-> "inflationAdjusted",
     timing |-> "end", targetToday |-> Q(50000, 1), maxMonths |-> Null]

\* the simulation scenario and its neighbours
FinalInputs ==
    [pvToday : {Zero, Q(1000, 1), Q(2000, 1)}, pmt0 : {Zero, Q(500, 1)},
     months : -1 .. MaxHorizon, ageNow : Ages,
     realMonthlyRate : {Zero, Q(1, 100)},
     inflationMonthlyRate : {Zero, Q(1, 500)},
     indexation : {"inflationAdjusted"}, timing : Timings,
     targetToday : {Zero}, maxMonths : {Null}]

\* the solver scenario and its neighbours
SolveInputs ==
    [pvToday : {Q(5000, 1), Q(50000, 1)}, pmt0 : {Zero},
     months : {0, 120}, ageNow : Ages,
     realMonthlyRate : {Q(-1, 200), Q(1, 200)},
     inflationMonthlyRate : {Q(1, 500)},
     indexation : {"inflationAdjusted"}, timing : {"end"},
     targetToday : {Q(50000, 1)}, maxMonths : {Null}]

InitScenario ==
    /\ \/ op = "finalBalanceReal" /\ params \in FinalInputs
       \/ op = "solveRequiredPmt" /\ params \in SolveInputs
    /\ Locals

NextScenario == FinalCall \/ NextSolve

SpecScenario == InitScenario /\ [][NextScenario]_vars

\* C14: the simulation scenario returns 3 points, a final real balance of
\* 2025.05 to within 0.005 and a month-1 nominal contribution of 501 to
\* two decimals.
C14_SimScenarioValues ==
    (op = "finalBalanceReal" /\ pc = "done" /\ params = SimScenario)
        => /\ SimLength(params) = 3
           /\ Leq(Q(2025045, 1000), result)
           /\ Leq(result, Q(2025055, 1000))
           /\ Leq(Q(500995, 1000), ContributionNominal(params, 1))
           /\ Leq(ContributionNominal(params, 1), Q(501005, 1000))

\* what the code returns for that scenario: 3 points, 2025.10 and 501
SimScenarioReturns ==
    (op = "finalBalanceReal" /\ pc = "done" /\ params = SimScenario)
        => /\ SimLength(params) = 3
           /\ result = Q(20251, 10)
           /\ ContributionNominal(params, 1) = Q(501, 1)

\* C15: the solver scenario returns a non-null positive contribution that
\* is 298.5 to within 0.5.
C15_SolveScenarioValue ==
    (op = "solveRequiredPmt" /\ pc = "done" /\ params = SolveScenario)
        => /\ result # Null
           /\ Gt(result, Zero)
           /\ Leq(Q(298, 1), result)
           /\ Leq(result, Q(299, 1))

\* what the code returns for that scenario: about 249.6
SolveScenarioReturns ==
    (op = "solveRequiredPmt" /\ pc = "done" /\ params = SolveScenario)
        => /\ result # Null
           /\ Leq(Q(249, 1), result)
           /\ Leq(result, Q(250, 1))

----------------------------------------------------------------------------
(* monthsToTarget against simulateProjection *)

\* points[k].balanceReal of simulateProjection run over H months, or Null
\* when the trajectory has no snapshot of month k
SimBalanceAt(p, H, k) ==
    LET st == SimPasses([p EXCEPT !.months = H], 0,
                        <<0, NaN, StartBalance(p), TRUE>>, k + 1)
    IN  IF st[1] = k + 1 THEN st[2] ELSE Null

\* One pass of the simulation loop while looking for the first snapshot
\* whose balanceReal is >= target; sc is <<loop state, month found or -1>>.
ScanIteration(p, mm, sc) ==
    IF sc[2] # -1 THEN sc
    ELSE LET st == SimIteration(p, mm, sc[1])
         IN  <<st, IF st[1] > sc[1][1] /\ Geq(st[2], p.targetToday)
                   THEN mm ELSE -1>>

RECURSIVE ScanPasses(_, _, _, _)
ScanPasses(p, mm, sc, k) ==
    IF k <= 0 THEN sc
    ELSE IF k = 1 THEN ScanIteration(p, mm, sc)
    ELSE LET h == k \div 2
             half == ScanPasses(p, mm, sc, h)
         IN  IF half[2] # -1 \/ ~half[1][4] THEN half
             ELSE ScanPasses(p, mm + h, half, k - h)

\* the smallest month whose snapshot, in the trajectory over H months, has
\* balanceReal >= target, or -1 when there is none
FirstSnapshotReaching(p, H) ==
    ScanPasses([p EXCEPT !.months = H], 0,
               <<<<0, NaN, StartBalance(p), TRUE>>, -1>>, H + 1)[2]

\* C19: for pv >= 0 and target > pv monthsToTarget applies the update of
\* simulateProjection: period m is the update of simulation month m - 1,
\* the balance held after k periods is points[k].balanceReal of the
\* trajectory over maxMonths months, and the result is the smallest month
\* whose snapshot reaches the target, null when no snapshot does.
C19_SameUpdateAsSimulation ==
    (op = "monthsToTarget" /\ Geq(params.pvToday, Zero)
        /\ Gt(params.targetToday, params.pvToday))
        => /\ (pc = "loop" /\ m <= MaxMonthsOf(params))
                  => MttUpdate(params, m, balanceReal)
                         = Advance(params, balanceReal,
                                   ContributionReal(params, m - 1))
           /\ (pc \in {"loop", "done"} /\ updates <= MaxMonthsArg
                   /\ IsFinite(balanceReal))
                  => balanceReal
                         = SimBalanceAt(params, MaxMonthsOf(params), updates)
           /\ pc = "done"
                  => LET first == FirstSnapshotReaching(params,
                                                        MaxMonthsOf(params))
                     IN  result = (IF first = -1 THEN Null ELSE Q(first, 1))

C19_Witness ==
    /\ op = "monthsToTarget" /\ pc = "done"
    /\ Geq(params.pvToday, Zero)
    /\ params.indexation = "fixedNominal"
    /\ params.inflationMonthlyRate = One
    /\ result = Q(2, 1)
    /\ SimBalanceAt(params, MaxMonthsOf(params), 2) = balanceReal

\* C20 as stated: under fixedNominal with inflation # 0 the simulation
\* deflates the contribution of the update that produces month k by
\* (1 + inflation)^k, not by the (1 + inflation)^(k-1) of monthsToTarget,
\* so that update differs from the update of period k of monthsToTarget.
C20_OnePeriodDiscrepancy ==
    (op = "simulateProjection" /\ params.indexation = "fixedNominal"
        /\ params.inflationMonthlyRate # Zero /\ params.pmt0 # Zero)
        => \A k \in 1 .. Len(points) - 1 :
              /\ points[k + 1].balanceReal
                     = Advance(params, points[k].balanceReal,
                               Div(params.pmt0,
                                   Pow(Add(One, params.inflationMonthlyRate),
                                       k)))
              /\ points[k + 1].balanceReal
                     # MttUpdate(params, k, points[k].balanceReal)

\* C20, amended: under fixedNominal the update that produces month k adds
\* the contribution deflated by (1 + inflation)^(k-1) in both loops, so it
\* is the update of period k of monthsToTarget; the snapshot of month k
\* lists the contribution deflated by (1 + inflation)^k, which the next
\* update adds.
C20_SameDeflator ==
    (op = "simulateProjection" /\ params.indexation = "fixedNominal")
        => /\ \A k \in 1 .. Len(points) :
                 points[k].contributionReal
                     = Div(params.pmt0,
                           Pow(Add(One, params.inflationMonthlyRate), k - 1))
           /\ \A k \in 1 .. Len(points) - 1 :
                 /\ points[k + 1].balanceReal
                        = Advance(params, points[k].balanceReal,
                                  points[k].contributionReal)
                 /\ points[k + 1].balanceReal
                        = MttUpdate(params, k, points[k].balanceReal)

C20_Witness ==
    /\ op = "simulateProjection" /\ pc = "done"
    /\ params.indexation = "fixedNominal"
    /\ params.inflationMonthlyRate = One
    /\ params.pmt0 = Two
    /\ params.realMonthlyRate = Zero
    /\ Len(points) = 3
    /\ points[3].balanceReal # points[2].balanceReal

----------------------------------------------------------------------------
(* Termination *)

Max0(n) == IF n < 0 THEN 0 ELSE n

\* the iteration counts of the four loops
LoopBounds ==
    /\ op = "simulateProjection"
           => /\ Len(points) <= Max0(params.months + 1)
              /\ updates <= Max0(params.months)
              /\ m <= Max0(params.months)
    /\ op = "monthsToTarget"
           => /\ updates <= Max0(MaxMonthsOf(params))
              /\ m <= Max0(MaxMonthsOf(params)) + 1
    /\ op = "solveRequiredPmt"
           => /\ guard <= DoublingCap
              /\ i <= BisectionSteps
              /\ nsim <= DoublingCap + 1 + BisectionSteps
              /\ (pc = "done" /\ result = Null /\ params.months > 0)
                     => Gt(high, Q(HighCeiling, 1))
              /\ (pc = "done" /\ result # Null /\ result # Zero)
                     => i = BisectionSteps

\* the steps left, at most, before the call returns
Rank ==
    IF pc = "done" THEN 0
    ELSE IF op = "simulateProjection"
    THEN (IF pc = "start" THEN Max0(params.months + 1) + 2
          ELSE Max0(params.months - m + 1) + 1)
    ELSE IF op = "monthsToTarget"
    THEN (IF pc = "start" THEN Max0(MaxMonthsOf(params)) + 2
          ELSE Max0(MaxMonthsOf(params) - m + 1) + 1)
    ELSE (IF pc = "start" THEN DoublingCap + BisectionSteps + 3
          ELSE IF pc = "double"
          THEN (DoublingCap - guard) + BisectionSteps + 2
          ELSE (BisectionSteps - i) + 1)

\* the call has returned or stands where one of its steps can be taken:
\* the branches at the entry and at each loop head are exhaustive
CanStep ==
    \/ pc = "done"
    \/ /\ op = "simulateProjection"
       /\ \/ pc = "start"
          \/ pc = "loop" /\ (m > params.months \/ m <= params.months)
    \/ /\ op = "monthsToTarget"
       /\ \/ pc = "start"
          \/ pc = "loop"
                /\ (m <= MaxMonthsOf(params) \/ m > MaxMonthsOf(params))
    \/ /\ op = "solveRequiredPmt"
       /\ \/ pc = "start"
          \/ pc = "double"
          \/ pc = "bisect" /\ (i < BisectionSteps \/ i >= BisectionSteps)

\* C18: every call of simulateProjection, monthsToTarget and
\* solveRequiredPmt with finite arguments returns: each step lowers a
\* non-negative count of the steps left and no call is stuck.  The
\* simulation loop makes at most months + 1 passes, the loop of
\* monthsToTarget at most maxMonths, the doubling loop stops by its pass
\* count or by high > 1e9, and a bisection that returns has made exactly
\* 70 passes.
C18_Terminates ==
    [][/\ Rank' < Rank /\ Rank' >= 0
       /\ LoopBounds /\ LoopBounds'
       /\ CanStep /\ CanStep']_vars

C18_Witness ==
    /\ op = "solveRequiredPmt" /\ pc = "done"
    /\ guard > 0
    /\ i = BisectionSteps
    /\ nsim = guard + 1 + BisectionSteps

----------------------------------------------------------------------------
(* The doubling phase of solveRequiredPmt *)

\* The while loop from high = h and guard = g, as <<how it ends, guard,
\* high>>: "reached" and "cap" leave the loop by its condition, "ceiling"
\* by the return null.
RECURSIVE DoublingEnd(_, _, _)
DoublingEnd(p, h, g) ==
    IF reaches(p, h) THEN <<"reached", g, h>>
    ELSE IF ~(g < DoublingCap) THEN <<"cap", g, h>>
    ELSE LET h2 == Mul(h, Two)
         IN  IF Gt(h2, Q(HighCeiling, 1)) THEN <<"ceiling", g, h2>>
             ELSE DoublingEnd(p, h2, g + 1)

\* a call that has left the doubling phase
AfterDoubling ==
    /\ op = "solveRequiredPmt"
    /\ SolveGuard(params) = "search"
    /\ pc \in {"bisect", "done"}

\* C21: when the doubling phase ends without a high for which reaches(high)
\* holds, the result is null: the bisection is never entered, and no
\* number is returned, with an upper bound that does not reach the target.
C21_NullWithoutUpperBound ==
    AfterDoubling
        => /\ pc = "bisect" => reaches(params, high)
           /\ (pc = "done" /\ ~reaches(params, high)) => result = Null
           /\ (pc = "done" /\ result # Null)
                  => /\ reaches(params, high)
                     /\ i = BisectionSteps
           /\ DoublingEnd(params, InitialHigh(params), 0)[1]
                  \in {"reached", "ceiling"}

C21_Witness ==
    /\ AfterDoubling /\ pc = "done"
    /\ guard >= 1
    /\ ~reaches(params, high)
    /\ result = Null

\* C22 as stated: each bound of the doubling phase ends the search for some
\* input: for one the loop stops after 60 doublings with high <= 1e9, for
\* another high exceeds 1e9 before 60 doublings were done.
C22_EachBoundEndsSomeSearch ==
    op = "solveRequiredPmt"
        => /\ \E p \in SolveParams :
                 /\ SolveGuard(p) = "search"
                 /\ LET end == DoublingEnd(p, InitialHigh(p), 0)
                    IN  /\ end[1] = "cap"
                        /\ end[2] = DoublingCap
                        /\ Leq(end[3], Q(HighCeiling, 1))
           /\ \E p \in SolveParams :
                 /\ SolveGuard(p) = "search"
                 /\ LET end == DoublingEnd(p, InitialHigh(p), 0)
                    IN  end[1] = "ceiling" /\ end[2] < DoublingCap

\* C22, amended: high starts at 1 or more, so it exceeds 1e9 within 30
\* doublings; an unsuccessful search is always ended by high > 1e9 and
\* never by the count of 60.
C22_OnlyCeilingEnds ==
    op = "solveRequiredPmt"
        => /\ guard <= 30 /\ guard < DoublingCap
           /\ pc = "double" => Geq(high, One)
           /\ (AfterDoubling /\ pc = "done" /\ result = Null)
                  => /\ Gt(high, Q(HighCeiling, 1))
                     /\ DoublingEnd(params, InitialHigh(params), 0)
                            = <<"ceiling", guard, high>>

C22_Witness ==
    /\ AfterDoubling /\ pc = "done" /\ result = Null
    /\ Gt(high, Q(HighCeiling, 1))
    /\ guard = 29
    /\ params.realMonthlyRate = Q(-1, 1)

----------------------------------------------------------------------------
(* Truncated trajectories in solveRequiredPmt *)

\* simulateProjection with base contribution c stops before the horizon
Truncated(p, c) == SimLength([p EXCEPT !.pmt0 = c]) < p.months + 1

\* C23: a candidate contribution whose simulation becomes non-finite before
\* the horizon is never counted as reaching the target: reaches(c) is false
\* whenever the trajectory for c is truncated.
C23_TruncatedNeverReaches ==
    (op = "solveRequiredPmt" /\ pc \in {"double", "bisect"})
        => \A c \in {low, high, Mid(low, high)} :
              Truncated(params, c) => ~reaches(params, c)

\* what the code does: a number is returned although the trajectory for it
\* stops before the horizon
TruncatedResultReturned ==
    /\ op = "solveRequiredPmt" /\ pc = "done"
    /\ result # Null /\ result # Zero
    /\ Truncated(params, result)
    /\ reaches(params, result)

----------------------------------------------------------------------------
(* Order of the steps of realMonthlyRateFromGross *)

TaxInRange(t) == IF Lt(t, Zero) THEN Zero ELSE IF Gt(t, One) THEN One ELSE t

RealOfNet(g, t, infl) ==
    Sub(Div(Add(One, Mul(g, Sub(One, t))), Add(One, infl)), One)

RateInRange(x) ==
    IF Lt(x, Q(-99, 100)) THEN Q(-99, 100)
    ELSE IF Gt(x, Q(10, 1)) THEN Q(10, 1) ELSE x

\* C25: realMonthlyRateFromGross clamps the tax to [0, 1], computes
\* net = 1 + gross * (1 - tax) and real = net / (1 + inflation) - 1 and
\* returns real clamped to [-0.99, 10]; a tax above 1 gives the result of
\* tax = 1 and a tax below 0 the result of tax = 0.
C25_TaxClampedFirst ==
    (op = "realMonthlyRateFromGross" /\ pc = "done") =>
        /\ result = RateInRange(RealOfNet(params.grossMonthlyRate,
                                          TaxInRange(params.taxOnGainsRate),
                                          params.inflationMonthlyRate))
        /\ Gt(params.taxOnGainsRate, One) =>
               result = realMonthlyRateFromGross(
                            [params EXCEPT !.taxOnGainsRate = One])
        /\ Lt(params.taxOnGainsRate, Zero) =>
               result = realMonthlyRateFromGross(
                            [params EXCEPT !.taxOnGainsRate = Zero])

\* a tax of 2 on a gross rate of 1%: the result is that of a tax of 1, not
\* the one the formula gives for 2
C25_Witness ==
    /\ op = "realMonthlyRateFromGross" /\ pc = "done"
    /\ params.taxOnGainsRate = Two
    /\ params.grossMonthlyRate = Q(1, 100)
    /\ params.inflationMonthlyRate = Q(3, 1000)
    /\ result = Q(-3, 1003)
    /\ result # RateInRange(RealOfNet(params.grossMonthlyRate, Two,
                                      params.inflationMonthlyRate))

----------------------------------------------------------------------------
(* The inflation factor along a trajectory *)

FactorNonDecreasing ==
    \A k \in 1 .. Len(points) :
        /\ Geq(points[k].inflFactor, One)
        /\ k < Len(points) =>
               Leq(points[k].inflFactor, points[k + 1].inflFactor)

FactorNonIncreasing ==
    \A k \in 1 .. Len(points) :
        /\ Leq(points[k].inflFactor, One)
        /\ k < Len(points) =>
               Geq(points[k].inflFactor, points[k + 1].inflFactor)

\* C26 as stated: along every trajectory with monthly inflation >= -1 the
\* inflation factor is non-decreasing from one point to the next and never
\* below 1.
C26_FactorNonDecreasing ==
    (op = "simulateProjection"
        /\ Geq(params.inflationMonthlyRate, Q(-1, 1))) => FactorNonDecreasing

\* C26, amended: the factor is non-decreasing and never below 1 for monthly
\* inflation >= 0; for -1 <= inflation < 0 it is non-increasing and never
\* above 1.
C26_FactorFollowsSignOfInflation ==
    op = "simulateProjection" =>
        /\ Geq(params.inflationMonthlyRate, Zero) => FactorNonDecreasing
        /\ (Geq(params.inflationMonthlyRate, Q(-1, 1))
               /\ Lt(params.inflationMonthlyRate, Zero)) => FactorNonIncreasing

C26_Witness ==
    /\ op = "simulateProjection" /\ pc = "done"
    /\ params.inflationMonthlyRate = One
    /\ Len(points) = 3
    /\ points[1].inflFactor = One
    /\ points[2].inflFactor = Two
    /\ points[3].inflFactor = Q(4, 1)

\* deflation of 100%: the factor falls from 1 to 0
FactorFalls ==
    /\ op = "simulateProjection" /\ pc = "done"
    /\ params.inflationMonthlyRate = Q(-1, 1)
    /\ Len(points) >= 2
    /\ points[1].inflFactor = One
    /\ points[2].inflFactor = Zero

----------------------------------------------------------------------------
(* The bracket of the bisection *)

BracketHolds ==
    (op = "solveRequiredPmt" /\ pc = "bisect") =>
        /\ Leq(Zero, low) /\ Leq(low, high)
        /\ reaches(params, high)
        /\ low = Zero \/ ~reaches(params, low)

BisectionPass == op = "solveRequiredPmt" /\ pc = "bisect" /\ i' = i + 1

ExactMid == Div(Add(low, high), Two)

OneBoundToMid ==
    BisectionPass =>
        /\ \/ high' = Mid(low, high) /\ low' = low
           \/ low' = Mid(low, high) /\ high' = high
        /\ Leq(high', high)
        /\ Geq(low', low)

WidthHalved ==
    BisectionPass => Sub(high', low') = Div(Sub(high, low), Two)

WidthHalvedWhenExact ==
    BisectionPass =>
        /\ Leq(Sub(high', low'), Sub(high, low))
        /\ RoundGrid(ExactMid) = ExactMid =>
               Sub(high', low') = Div(Sub(high, low), Two)

\* C27 as stated: on entry to the bisection and after each of its passes
\* 0 <= low <= high, reaches(high) holds and low = 0 or reaches(low) does not
\* hold; each pass moves one bound to the midpoint, high never increases, low
\* never decreases, and the width high - low is halved by every pass.
C27_BracketHalvedEveryPass ==
    []BracketHolds /\ [][OneBoundToMid /\ WidthHalved]_vars

\* C27, amended: the same, with the width halved by every pass whose exact
\* midpoint is representable and never increased by any pass.
C27_BracketNarrowsToPrecision ==
    []BracketHolds /\ [][OneBoundToMid /\ WidthHalvedWhenExact]_vars

\* the 70 passes are done and the bracket is one grid step wide
C27_Witness ==
    /\ op = "solveRequiredPmt" /\ pc = "bisect"
    /\ i = BisectionSteps
    /\ Gt(low, Zero)
    /\ ~reaches(params, low)
    /\ reaches(params, high)
    /\ Sub(high, low) = Q(1, Grid)

----------------------------------------------------------------------------
(* Agreement of the two solvers *)

\* the value of monthsToTarget is the one its loop ends with
MttValueAgrees ==
    (op = "monthsToTarget" /\ pc = "done" /\ params.maxMonths # Null) =>
        result = monthsToTarget(params)

WithContribution(c) ==
    [params EXCEPT !.pmt0 = c, !.maxMonths = Q(params.months, 1)]

\* C28: if solveRequiredPmt returns a number c for a horizon H >= 1 with
\* target > pv >= 0, monthsToTarget with base contribution c, maxMonths = H
\* and the same other arguments returns a number m with 1 <= m <= H.
C28_SolversAgree ==
    (/\ op = "solveRequiredPmt" /\ pc = "done" /\ result # Null
     /\ params.months >= 1
     /\ Gt(params.targetToday, params.pvToday)
     /\ Geq(params.pvToday, Zero)) =>
        LET mm == monthsToTarget(WithContribution(result))
        IN  /\ mm # Null
            /\ Leq(One, mm)
            /\ Leq(mm, Q(params.months, 1))

\* the target is met exactly, in the last month of the horizon
C28_Witness ==
    /\ op = "solveRequiredPmt" /\ pc = "done" /\ result # Null
    /\ params.months = 2
    /\ params.pvToday = Zero
    /\ params.targetToday = Two
    /\ params.realMonthlyRate = Zero
    /\ params.inflationMonthlyRate = Zero
    /\ result = One
    /\ monthsToTarget(WithContribution(result)) = Two

----------------------------------------------------------------------------
(* Contributions at the beginning against contributions at the end *)

\* Inputs at the edge of the precision of the balance: a balance whose sum
\* with the contribution, and whose growth by the rate, fall half a step of
\* the grid apart from a representable number.
TieBalance == Q(StoreExact \div (2 * StoreGrid), 1)
TieContribution == Q(1, 2 * StoreGrid)
TieRate == Q(2, StoreExact)

TieSim ==
    [pvToday : {TieBalance}, pmt0 : {Zero, TieContribution},
     months : {1}, ageNow : Ages,
     realMonthlyRate : {TieRate}, inflationMonthlyRate : {Zero},
     indexation : Indexations, timing : Timings,
     targetToday : {Zero}, maxMonths : {Null}]

TieMtt ==
    [pvToday : {TieBalance}, pmt0 : {TieContribution},
     months : {0}, ageNow : Ages,
     realMonthlyRate : {TieRate}, inflationMonthlyRate : {Zero},
     indexation : Indexations, timing : Timings,
     targetToday : {Add(TieBalance, Q(2, StoreGrid))},
     maxMonths : {<<1>>}]

InitPrecision ==
    \/ InitSim
    \/ InitMtt
    \/ op = "simulateProjection" /\ params \in TieSim /\ Locals
    \/ op = "monthsToTarget" /\ params \in TieMtt /\ Locals

NextPrecision == NextSim \/ NextMtt

SpecPrecision == InitPrecision /\ [][NextPrecision]_vars

WithTiming(t) == [params EXCEPT !.timing = t]

DominanceCase ==
    /\ pc = "done"
    /\ Geq(params.pvToday, Zero)
    /\ Geq(params.pmt0, Zero)
    /\ Geq(params.realMonthlyRate, Zero)
    /\ Gt(params.inflationMonthlyRate, Q(-1, 1))

\* the balance of every point against the same month of the other timing
BalancesDominate ==
    (op = "simulateProjection" /\ params.months >= 0) =>
        \A k \in 1 .. Len(points) :
            LET other == SimBalanceAt(
                             WithTiming(IF params.timing = "begin"
                                        THEN "end" ELSE "begin"),
                             params.months, k - 1)
            IN  /\ other # Null
                /\ IF params.timing = "begin"
                   THEN Geq(points[k].balanceReal, other)
                   ELSE Geq(other, points[k].balanceReal)

\* the month returned against the one returned for the other timing
MonthsDominate ==
    (op = "monthsToTarget" /\ params.maxMonths # Null) =>
        LET begin == IF params.timing = "begin" THEN result
                     ELSE monthsToTarget(WithTiming("begin"))
            end == IF params.timing = "end" THEN result
                   ELSE monthsToTarget(WithTiming("end"))
        IN  end # Null => (begin # Null /\ Leq(begin, end))

\* no operation of the update of the balance bal is rounded
UpdateExact(p, bal, contributionReal) ==
    IF p.timing = "begin"
    THEN LET s == Add(bal, contributionReal)
         IN  /\ Store(s) = s
             /\ LET t == Mul(s, Add(One, p.realMonthlyRate)) IN Store(t) = t
    ELSE LET t == Mul(bal, Add(One, p.realMonthlyRate))
         IN  /\ Store(t) = t
             /\ LET s == Add(t, contributionReal) IN Store(s) = s

\* no update of the first H periods is rounded
TrajectoryExact(p, H) ==
    \A k \in 0 .. H - 1 :
        LET bal == SimBalanceAt(p, H, k)
        IN  bal # Null /\ UpdateExact(p, bal, ContributionReal(p, k))

PeriodsOf(p) ==
    IF op = "monthsToTarget" THEN MaxMonthsOf(p) ELSE p.months

BothExact ==
    /\ TrajectoryExact(WithTiming("begin"), PeriodsOf(params))
    /\ TrajectoryExact(WithTiming("end"), PeriodsOf(params))

\* C29 as stated: for pv >= 0, base contribution >= 0, real rate >= 0 and
\* inflation > -1 the real balance of every point under "begin" is >= that
\* of the same month under "end", monthsToTarget under "begin" never returns
\* a later month than under "end" and is non-null whenever "end" is.
C29_BeginDominatesEnd ==
    DominanceCase => (BalancesDominate /\ MonthsDominate)

\* C29, amended: the same for inputs whose updates are computed without
\* rounding in both trajectories.
C29_BeginDominatesEndWhenExact ==
    (DominanceCase /\ (op = "monthsToTarget" => params.maxMonths # Null)
        /\ BothExact) => (BalancesDominate /\ MonthsDominate)

C29_Witness ==
    /\ op = "monthsToTarget" /\ DominanceCase
    /\ params.timing = "end"
    /\ params.pvToday = Zero
    /\ params.pmt0 = One
    /\ params.realMonthlyRate = One
    /\ params.inflationMonthlyRate = Zero
    /\ params.targetToday = Two
    /\ params.maxMonths = <<2>>
    /\ BothExact
    /\ result = Two
    /\ monthsToTarget(WithTiming("begin")) = One

\* a rounded update: after one period the balance under "begin" is one grid
\* step below the balance under "end"
BeginFallsBehind ==
    /\ op = "simulateProjection" /\ pc = "done"
    /\ params \in TieSim
    /\ params.timing = "begin"
    /\ params.pmt0 = TieContribution
    /\ Len(points) = 2
    /\ Sub(SimBalanceAt(WithTiming("end"), 1, 1), points[2].balanceReal)
           = Q(1, StoreGrid)

\* the same for monthsToTarget: a month under "end", null under "begin"
BeginMissesTarget ==
    /\ op = "monthsToTarget" /\ pc = "done"
    /\ params \in TieMtt
    /\ params.timing = "begin"
    /\ result = Null
    /\ monthsToTarget(WithTiming("end")) = One

----------------------------------------------------------------------------
(* Strict monotonicity of the final balance in the base contribution *)

\* the contributions a call is compared with
LargerContributions ==
    {c \in (IF params \in TieSim THEN {TieContribution} ELSE Amounts) :
        Lt(params.pmt0, c)}

MonotoneCase ==
    /\ op = "simulateProjection" /\ pc = "done" /\ params.months >= 1
    /\ Gt(params.inflationMonthlyRate, Q(-1, 1))

FinalIndependentOfContribution ==
    (MonotoneCase /\ params.realMonthlyRate = Q(-1, 1)
        /\ params.timing = "begin") => FinalOf(result) = Zero

\* a contribution below the precision of the balance: the final balance is
\* the one of no contribution
ContributionAbsorbed ==
    /\ MonotoneCase
    /\ params \in TieSim
    /\ params.timing = "begin"
    /\ params.pmt0 = Zero
    /\ FinalOf(result)
           = finalBalanceReal([params EXCEPT !.pmt0 = TieContribution])

----------------------------------------------------------------------------
(* App: the preset panel *)

MaxNameLen == 2

NameChars == {"a", " "}

\* the texts of the name field
NameStrings == UNION {[1 .. n -> NameChars] : n \in 0 .. MaxNameLen}

\* the payloads of the form
Payloads == {"p1", "p2"}

NoData == "null"

\* entries of the stored item: the name may be empty and the data missing
StoredNames ==
    {<<>>, <<" ", "a">>} \cup {Trim(s) : s \in NameStrings}
StoredEntries == [name : StoredNames, data : Payloads \cup {NoData}]

IsPreset(p) == p.name # <<>> /\ p.data # NoData

\* loadPresetsFromStorage: the entries with a name and data
loadPresetsFromStorage(raw) == SelectSeq(raw, IsPreset)

DistinctNames(list) ==
    \A j, k \in 1 .. Len(list) : j # k => list[j].name # list[k].name

\* stored items of at most two entries whose presets have distinct names
StoredLists ==
    {raw \in UNION {[1 .. n -> StoredEntries] : n \in 0 .. 2} :
        DistinctNames(loadPresetsFromStorage(raw))}

\* the state after the first render: presets is read from the stored item
\* and the effect has written it back
InitPresets ==
    /\ op = "App"
    /\ params = <<>>
    /\ pc = "start"
    /\ m = 0
    /\ balanceReal = Zero
    /\ points = <<>>
    /\ low = Zero
    /\ high = Zero
    /\ guard = 0
    /\ i = 0
    /\ result = Null
    /\ updates = 0
    /\ nsim = 0
    /\ \E raw \in StoredLists : presets = loadPresetsFromStorage(raw)
    /\ stored = presets
    /\ presetName = <<>>
    /\ presetPayload \in Payloads

FinanceUnchanged ==
    UNCHANGED <<pc, m, balanceReal, points, low, high, guard, i, result,
                updates, nsim>>

\* onChange of the name field
SetPresetName ==
    /\ \E s \in NameStrings : presetName' = s
    /\ op' = "setPresetName"
    /\ params' = <<>>
    /\ UNCHANGED <<presets, presetPayload, stored>>
    /\ FinanceUnchanged

\* a change of the form: presetPayload is recomputed
SetPresetPayload ==
    /\ \E d \in Payloads : presetPayload' = d
    /\ op' = "presetPayload"
    /\ params' = <<>>
    /\ UNCHANGED <<presets, presetName, stored>>
    /\ FinanceUnchanged

\* prev.filter((p) => p.name !== name)
WithoutName(list, name) ==
    LET Other(p) == p.name # name IN SelectSeq(list, Other)

\* mutant: the preset of the same name is kept
savePresetKeepsOld ==
    /\ LET name == Trim(presetName)
       IN  IF name = <<>>
           THEN UNCHANGED <<presets, presetName, stored>>
           ELSE /\ presets' = Append(presets,
                                     [name |-> name, data |-> presetPayload])
                /\ presetName' = <<>>
                /\ stored' = presets'
    /\ op' = "savePreset"
    /\ params' = <<>>
    /\ UNCHANGED presetPayload
    /\ FinanceUnchanged

savePreset ==
    /\ LET name == Trim(presetName)
       IN  IF name = <<>>
           THEN UNCHANGED <<presets, presetName, stored>>
           ELSE /\ presets' = Append(WithoutName(presets, name),
                                     [name |-> name, data |-> presetPayload])
                /\ presetName' = <<>>
                /\ stored' = presets'
    /\ op' = "savePreset"
    /\ params' = <<>>
    /\ UNCHANGED presetPayload
    /\ FinanceUnchanged

\* the delete button of a listed preset
deletePreset ==
    /\ \E k \in 1 .. Len(presets) :
        /\ presets' = WithoutName(presets, presets[k].name)
        /\ params' = [name |-> presets[k].name]
    /\ stored' = presets'
    /\ op' = "deletePreset"
    /\ UNCHANGED <<presetName, presetPayload>>
    /\ FinanceUnchanged

NextPresets ==
    SetPresetName \/ SetPresetPayload \/ savePreset \/ deletePreset

SpecPresets == InitPresets /\ [][NextPresets]_vars

\* the list new is the list old without its entry at position k
RemovedAt(old, new, k) ==
    new = SubSeq(old, 1, k - 1) \o SubSeq(old, k + 1, Len(old))

\* the list new is the list old without its only entry named name, if any
OnlyNameRemoved(old, new, name) ==
    IF \E k \in 1 .. Len(old) : old[k].name = name
    THEN \E k \in 1 .. Len(old) : old[k].name = name /\ RemovedAt(old, new, k)
    ELSE new = old

SaveStep ==
    op' = "savePreset" =>
        LET name == Trim(presetName)
        IN  IF name = <<>>
            THEN presets' = presets /\ stored' = stored
            ELSE /\ Cardinality({k \in 1 .. Len(presets') :
                                    presets'[k].name = name}) = 1
                 /\ presets'[Len(presets')]
                        = [name |-> name, data |-> presetPayload]
                 /\ OnlyNameRemoved(presets,
                        SubSeq(presets', 1, Len(presets') - 1), name)

DeleteStep ==
    op' = "deletePreset" =>
        /\ \A k \in 1 .. Len(presets') : presets'[k].name # params'.name
        /\ OnlyNameRemoved(presets, presets', params'.name)

\* C30: from a list of pairwise distinct names the names stay pairwise
\* distinct under savePreset and deletePreset; savePreset with a non-blank
\* name leaves exactly one preset of the trimmed name, holding the current
\* parameters and placed last; deletePreset(name) leaves none of that name
\* and changes no other preset; savePreset with a blank name changes nothing.
C30_PresetNamesDistinct ==
    /\ [](op \in {"App", "setPresetName", "presetPayload", "savePreset",
                  "deletePreset"} => DistinctNames(presets))
    /\ [][SaveStep /\ DeleteStep]_vars

\* a preset was saved again under a name written with spaces around it: it
\* is last, after one that was saved before it
C30_Witness ==
    /\ op = "savePreset"
    /\ Len(presets) = 2
    /\ presets[1] = [name |-> <<"a", "a">>, data |-> "p1"]
    /\ presets[2] = [name |-> <<"a">>, data |-> "p2"]
    /\ presetName = <<>>
    /\ stored = presets

====
